---- MODULE Spec2Model ----
(***************************************************************************)
(* State-machine model of the TMC2209 stepper firmware.                    *)
(*                                                                         *)
(* Two revisions of the firmware are in the repository:                    *)
(*   "final": src/dep/arduinounostepper_TMC2209/arduinounostepper_TMC2209.ino *)
(*   "early": src/unnamed/part_001 (direction-reversal self-test, status   *)
(*            line every loop iteration)                                   *)
(* The revision is fixed at Init; every action is guarded by it.           *)
(*                                                                         *)
(* The TMC2209 driver library is an external collaborator: it is modelled  *)
(* as a mock that records the calls made to it and keeps the settings the  *)
(* properties speak about (enabled, currents, PWM tuning, velocity).       *)
(***************************************************************************)
EXTENDS Integers, Sequences, FiniteSets, TLC

VARIABLES
    rev,                  \* "final" | "early"
    pc,                   \* "idle" (in loop()), "seeking" (homing poll loop), "backoff" (homing delay(200))
    motorMoving,          \* bool motorMoving
    motorEnabled,         \* bool motorEnabled (early revision only)
    velocity,             \* int32_t velocity (early revision only)
    latestLoopTime,       \* unsigned long latestLoopTime (early revision only)
    lastCommandMessage,   \* char lastCommandMessage[] (early revision only)
    hasNewCommandMessage, \* bool hasNewCommandMessage (early revision only)
    drv,                  \* the driver: settings last written to it
    cmd,                  \* the line last processed (final) / processed in the last loop() iteration (early)
    resp,                 \* the Response to it: what executeCommand returned, or the parse error
    calls,                \* driver operations called while handling it, in order
    out,                  \* lines written to Serial by the last step, in order
    now,                  \* millis() (meaningful while the code reads the clock)
    startTime,            \* sensorlessHoming's local startTime
    direction,            \* sensorlessHoming's parameter direction
    iter,                 \* number of loop() iterations explored (early revision)
    stall,                \* the StallReading at the last poll: stall-guard register, DIAG level
    rx                    \* lines waiting in the Serial receive buffer, not yet read

vars == <<rev, pc, motorMoving, motorEnabled, velocity, latestLoopTime,
          lastCommandMessage, hasNewCommandMessage, drv, cmd, resp, calls,
          out, now, startTime, direction, iter, stall, rx>>

-----------------------------------------------------------------------------
(* Program constants *)

CMD_ENABLE == 0
CMD_SET_HARDWARE_ENABLE_PIN == 1
CMD_HARDWARE_DISABLED == 2
CMD_ENABLE_ANALOG_CURRENT_SCALING == 3
CMD_DISABLE_AUTOMATIC_CURRENT_SCALING == 4
CMD_ENABLE_AUTOMATIC_CURRENT_SCALING == 5
CMD_ENABLE_AUTOMATIC_GRADIENT_ADAPTATION == 6
CMD_SET_PWM_OFFSET == 7
CMD_SET_PWM_GRADIENT == 8
CMD_SET_RUN_CURRENT == 9
CMD_SET_HOLD_CURRENT == 10
CMD_SET_STANDSTILL_MODE == 11
CMD_SET_STALL_GUARD_THRESHOLD == 12
CMD_SET_MICROSTEPS_PER_STEP == 13
CMD_SET_MICROSTEPS_PER_STEP_POWER_OF_TWO == 14
CMD_MOVE_AT_VELOCITY == 15
CMD_MOVE_USING_STEP_DIR_INTERFACE == 16
CMD_IS_SETUP_AND_COMMUNICATING == 17
CMD_SET_REPLY_DELAY == 18
CMD_GET_STALL_GUARD_RESULT == 19
CMD_IS_STANDING_STILL == 20
CMD_SENSORLESS_HOMING == 21
CMD_RESET_TO_SAFE_CURRENT == 22

\* early revision's enum
CMD_SET_VELOCITY == 1
CMD_MOVE == 2

OUTPUT_BUFFER_SIZE == 192

HOMING_SPEED == 100
STALL_THRESHOLD == 10
TIMEOUT_MS == 5000
BACKOFF_SPEED == 50
BACKOFF_DURATION_MS == 200
POLL_DELAY_MS == 10

SAFE_RUN_CURRENT == 10
SAFE_HOLD_CURRENT == 5
SAFE_RUN_CURRENT_EARLY == 50
SAFE_HOLD_CURRENT_EARLY == 20

REVERSAL_INTERVAL_MS == 3000
UART_STALL_LIMIT == 480
DEFAULT_VELOCITY == 600

\* int is 16 bits on the Arduino Uno
INT_MIN == -32768
INT_MAX == 32767
INT32_MAX == 2147483647
INT32_MIN == (0 - INT32_MAX) - 1

\* unsigned long is 32 bits: a clock value is kept as two 16-bit halves,
\* [hi, lo] standing for hi * 65536 + lo
TwoPow16 == 65536

U32(hi, lo) == [hi |-> hi, lo |-> lo]

\* a + k in unsigned long arithmetic, for 0 <= k < 65536
U32Add(a, k) ==
    LET lo == a.lo + k
    IN IF lo < TwoPow16
       THEN U32(a.hi, lo)
       ELSE U32((a.hi + 1) % TwoPow16, lo - TwoPow16)

\* a - b without the reduction modulo 2^32
U32Sub_NoWrap(a, b) ==
    IF a.lo >= b.lo
    THEN U32(a.hi - b.hi, a.lo - b.lo)
    ELSE U32(a.hi - b.hi - 1, a.lo + TwoPow16 - b.lo)

\* a - b in unsigned long arithmetic
U32Sub(a, b) ==
    IF a.lo >= b.lo
    THEN U32((a.hi - b.hi) % TwoPow16, a.lo - b.lo)
    ELSE U32((a.hi - b.hi - 1) % TwoPow16, a.lo + TwoPow16 - b.lo)

\* a < k and a > k for an unsigned long a and 0 <= k < 65536
U32Less(a, k) == a.hi = 0 /\ a.lo < k
U32Greater(a, k) == a.hi > 0 \/ a.lo > k

-----------------------------------------------------------------------------
(* JSON values (JsonVariant) *)

IntV(k) == [t |-> "int", n |-> k]
NullV == [t |-> "null", n |-> 0]
BoolV == [t |-> "bool", n |-> 1]
StrV == [t |-> "str", n |-> 0]

\* payloads that are not integers: no "Value" at all, and a boolean
NonInts == {NullV, BoolV}

\* value.is<int32_t>()
IsInt32(value) == value.t = "int" /\ value.n >= INT32_MIN /\ value.n <= INT32_MAX

\* value.is<int>() : int is 16 bits wide
IsInt(value) == value.t = "int" /\ value.n >= INT_MIN /\ value.n <= INT_MAX

\* value.is<uint8_t>()
IsUint8(value) == value.t = "int" /\ value.n >= 0 /\ value.n <= 255

\* doc["CommandCode"].as<int32_t>() : a number converts, true is 1, anything else is 0
AsInt32(value) ==
    IF IsInt32(value) THEN value.n
    ELSE IF value.t = "bool" THEN value.n
    ELSE 0

\* the low 16 bits of v, read as a signed int
Low16(v) ==
    LET m == v % TwoPow16
    IN IF m > INT_MAX THEN m - TwoPow16 ELSE m

\* snprintf "%d" given an int32_t argument.  %d reads an int; where int is
\* 16 bits wide the argument is wider than what is read, which the language
\* leaves undefined: the text is that of the whole value, or that of the half
\* that is read (d16).
FormatD(v, d16) == ToString(IF d16 THEN Low16(v) ELSE v)

\* the outcomes of FormatD that differ for v
PrintfReads(v) == IF Low16(v) = v THEN {FALSE} ELSE BOOLEAN

-----------------------------------------------------------------------------
(* The driver (TMC2209 stepper) as a mock *)

Call(op, arg) == [op |-> op, arg |-> arg]

\* the effect of one driver call on the settings the driver keeps
DrvApply(d, c) ==
    CASE c.op = "enable" -> [d EXCEPT !.enabled = TRUE]
      [] c.op = "disable" -> [d EXCEPT !.enabled = FALSE]
      [] c.op = "setRunCurrent" -> [d EXCEPT !.runCurrent = c.arg]
      [] c.op = "setHoldCurrent" -> [d EXCEPT !.holdCurrent = c.arg]
      [] c.op = "setPwmOffset" -> [d EXCEPT !.pwmOffset = c.arg]
      [] c.op = "setPwmGradient" -> [d EXCEPT !.pwmGradient = c.arg]
      [] c.op = "moveAtVelocity" -> [d EXCEPT !.velocity = c.arg]
      [] OTHER -> d

RECURSIVE DrvApplyAll(_, _)
DrvApplyAll(d, cs) ==
    IF cs = <<>> THEN d ELSE DrvApplyAll(DrvApply(d, Head(cs)), Tail(cs))

\* resetToSafeCurrentSettings(), final revision
resetToSafeCurrentSettings ==
    << Call("setRunCurrent", SAFE_RUN_CURRENT),
       Call("setHoldCurrent", SAFE_HOLD_CURRENT),
       Call("setPwmOffset", 0),
       Call("setPwmGradient", 0) >>

\* resetToSafeCurrentSettings(), early revision
resetToSafeCurrentSettingsEarly ==
    << Call("setRunCurrent", SAFE_RUN_CURRENT_EARLY),
       Call("setHoldCurrent", SAFE_HOLD_CURRENT_EARLY),
       Call("setPwmOffset", 0),
       Call("setPwmGradient", 0) >>

-----------------------------------------------------------------------------
(* executeCommand, final revision.  A handler yields                       *)
(*   success, value, message : the return value, out_value, out_message    *)
(*   calls                   : the driver operations it called, in order   *)
(*   moving                  : motorMoving when it returns                 *)
(*   homing                  : TRUE when sensorlessHoming entered its loop *)

Res(s, v, m, c, mv) ==
    [success |-> s, value |-> v, message |-> m, calls |-> c, moving |-> mv,
     homing |-> FALSE]

\* out_value as processCommand initialises it
NO_VALUE == -1

\* case CMD_ENABLE
CmdEnable(value, moving) ==
    IF IsInt32(value)
    THEN IF value.n = 1
         THEN Res(TRUE, 1, "ENB", <<Call("enable", 0)>>, moving)
         ELSE IF value.n = 0
         THEN Res(TRUE, 0, "DSB", <<Call("disable", 0)>>, moving)
         ELSE Res(FALSE, NO_VALUE, "Enable must = 0 or 1", <<>>, moving)
    ELSE Res(FALSE, NO_VALUE, "Enable is int.", <<>>, moving)

\* case CMD_SET_HARDWARE_ENABLE_PIN
CmdSetHardwareEnablePin(value, moving) ==
    IF IsInt32(value)
    THEN IF value.n >= 0 /\ value.n <= 255
         THEN Res(TRUE, value.n, "OK", <<Call("setHardwareEnablePin", value.n)>>, moving)
         ELSE Res(FALSE, NO_VALUE, "Pin must be 0-255", <<>>, moving)
    ELSE Res(FALSE, NO_VALUE, "Pin is int.", <<>>, moving)

\* case CMD_HARDWARE_DISABLED : the driver is read twice (r1 then r2)
CmdHardwareDisabled(r1, r2, moving) ==
    Res(TRUE, IF r1 THEN 0 ELSE 1, IF r2 THEN "ENB" ELSE "DSB",
        <<Call("hardwareDisabled", 0), Call("hardwareDisabled", 0)>>, moving)

\* cases CMD_ENABLE_ANALOG_CURRENT_SCALING .. CMD_ENABLE_AUTOMATIC_GRADIENT_ADAPTATION
CmdEnableAnalogCurrentScaling(moving) ==
    Res(TRUE, 1, "Analog CRT SCL ENB", <<Call("enableAnalogCurrentScaling", 0)>>, moving)

CmdDisableAutomaticCurrentScaling(moving) ==
    Res(TRUE, 0, "Auto CRT SCL DSB", <<Call("disableAutomaticCurrentScaling", 0)>>, moving)

CmdEnableAutomaticCurrentScaling(moving) ==
    Res(TRUE, 1, "Auto CRT SCL ENB", <<Call("enableAutomaticCurrentScaling", 0)>>, moving)

CmdEnableAutomaticGradientAdaptation(moving) ==
    Res(TRUE, 1, "Auto GRAD ADA ENB", <<Call("enableAutomaticGradientAdaptation", 0)>>, moving)

\* case CMD_SET_PWM_OFFSET
CmdSetPwmOffset(value, moving) ==
    IF IsInt(value)
    THEN IF value.n >= 0 /\ value.n <= 255
         THEN Res(TRUE, value.n, "OK", <<Call("setPwmOffset", value.n)>>, moving)
         ELSE Res(FALSE, NO_VALUE, "PWM offset in [0-255]", <<>>, moving)
    ELSE Res(FALSE, NO_VALUE, "PWM offset is int", <<>>, moving)

\* case CMD_SET_PWM_GRADIENT
CmdSetPwmGradient(value, moving) ==
    IF IsInt(value)
    THEN IF value.n >= 0 /\ value.n <= 255
         THEN Res(TRUE, value.n, "OK", <<Call("setPwmGradient", value.n)>>, moving)
         ELSE Res(FALSE, NO_VALUE, "PWM gradient is int in [0-255]", <<>>, moving)
    ELSE Res(FALSE, NO_VALUE, "PWM gradient is int in [0-255]", <<>>, moving)

\* a variant of the run-current handler without the upper range check
CmdSetRunCurrent_NoUpperBound(value, moving) ==
    IF IsInt(value)
    THEN IF value.n >= 0
         THEN Res(TRUE, value.n, "OK", <<Call("setRunCurrent", value.n)>>, moving)
         ELSE Res(FALSE, NO_VALUE, "Run CRT is int in [0, 100]", <<>>, moving)
    ELSE Res(FALSE, NO_VALUE, "Run CRT is int in [0, 100]", <<>>, moving)

\* case CMD_SET_RUN_CURRENT
CmdSetRunCurrent(value, moving) ==
    IF IsInt(value)
    THEN IF value.n >= 0 /\ value.n <= 100
         THEN Res(TRUE, value.n, "OK", <<Call("setRunCurrent", value.n)>>, moving)
         ELSE Res(FALSE, NO_VALUE, "Run CRT is int in [0, 100]", <<>>, moving)
    ELSE Res(FALSE, NO_VALUE, "Run CRT is int in [0, 100]", <<>>, moving)

\* case CMD_SET_HOLD_CURRENT
CmdSetHoldCurrent(value, moving) ==
    IF IsInt(value)
    THEN IF value.n >= 0 /\ value.n <= 100
         THEN Res(TRUE, value.n, "OK", <<Call("setHoldCurrent", value.n)>>, moving)
         ELSE Res(FALSE, NO_VALUE, "Hold CRT is int in [0, 100]", <<>>, moving)
    ELSE Res(FALSE, NO_VALUE, "Hold CRT is int in [0, 100]", <<>>, moving)

\* case CMD_SET_STANDSTILL_MODE : NORMAL, FREEWHEELING, STRONG_BRAKING, BRAKING
CmdSetStandstillMode(value, moving) ==
    IF IsInt(value)
    THEN IF value.n \in {0, 1, 2, 3}
         THEN Res(TRUE, value.n, "Standstill mode=" \o ToString(value.n),
                  <<Call("setStandstillMode", value.n)>>, moving)
         ELSE Res(FALSE, NO_VALUE, "Standstill mode is int in [0-3]", <<>>, moving)
    ELSE Res(FALSE, NO_VALUE, "Standstill mode is int in [0-3]", <<>>, moving)

\* case CMD_SET_STALL_GUARD_THRESHOLD
CmdSetStallGuardThreshold(value, moving) ==
    IF IsInt(value)
    THEN IF value.n >= 0 /\ value.n <= 255
         THEN Res(TRUE, value.n, "StallGuard thesh=" \o ToString(value.n),
                  <<Call("setStallGuardThreshold", value.n)>>, moving)
         ELSE Res(FALSE, NO_VALUE, "Threshold is int in [0-255]", <<>>, moving)
    ELSE Res(FALSE, NO_VALUE, "Threshold is int in [0-255]", <<>>, moving)

\* bits of a non-negative number, least significant first
RECURSIVE Bits(_, _)
Bits(n, w) == IF w = 0 THEN <<>> ELSE <<n % 2>> \o Bits(n \div 2, w - 1)

\* n & m on 16-bit non-negative operands: no bit position where both have a 1
AndIsZero(n, m) == \A i \in 1..15 : Bits(n, 15)[i] = 0 \/ Bits(m, 15)[i] = 0

\* isPowerOfTwo without its test of the sign
isPowerOfTwo_NoSignTest(n) == AndIsZero(n, n - 1)

\* isPowerOfTwo(int n)
isPowerOfTwo(n) == n > 0 /\ AndIsZero(n, n - 1)

\* case CMD_SET_MICROSTEPS_PER_STEP
CmdSetMicrostepsPerStep(value, moving) ==
    IF IsInt(value)
    THEN IF isPowerOfTwo(value.n)
         THEN Res(TRUE, value.n, "Microstep=1/" \o ToString(value.n),
                  <<Call("setMicrostepsPerStep", value.n)>>, moving)
         ELSE Res(FALSE, NO_VALUE, "Microsteps is int and must be power of 2", <<>>, moving)
    ELSE Res(FALSE, NO_VALUE, "Microsteps is int and must be power of 2", <<>>, moving)

\* case CMD_SET_MICROSTEPS_PER_STEP_POWER_OF_TWO
CmdSetMicrostepsPerStepPowerOfTwo(value, moving) ==
    IF IsInt(value)
    THEN IF value.n >= 0 /\ value.n <= 6
         THEN Res(TRUE, value.n, "Ok", <<Call("setMicrostepsPerStepPowerOfTwo", value.n)>>, moving)
         ELSE Res(FALSE, NO_VALUE, "Exponent is int in [0-6]", <<>>, moving)
    ELSE Res(FALSE, NO_VALUE, "Exponent is int in [0-6]", <<>>, moving)

\* a variant of the velocity handler that refuses to stop a motor that is not moving
CmdMoveAtVelocity_StopOnlyIfMoving(value, moving) ==
    IF ~IsInt(value)
    THEN Res(FALSE, NO_VALUE, "Velocity is int", <<>>, moving)
    ELSE IF value.n = 0
    THEN IF moving
         THEN Res(TRUE, NO_VALUE, "Motor stop.", resetToSafeCurrentSettings, FALSE)
         ELSE Res(FALSE, NO_VALUE, "Motor already stopped", <<>>, FALSE)
    ELSE Res(TRUE, value.n, "Move at v=" \o ToString(value.n),
             <<Call("moveAtVelocity", value.n)>>, TRUE)

\* case CMD_MOVE_AT_VELOCITY
CmdMoveAtVelocity(value, moving) ==
    IF ~IsInt(value)
    THEN Res(FALSE, NO_VALUE, "Velocity is int", <<>>, moving)
    ELSE IF value.n = 0
    THEN Res(TRUE, NO_VALUE, "Motor stop.", resetToSafeCurrentSettings, FALSE)
    ELSE Res(TRUE, value.n, "Move at v=" \o ToString(value.n),
             <<Call("moveAtVelocity", value.n)>>, TRUE)

\* case CMD_GET_STALL_GUARD_RESULT
CmdGetStallGuardResult(sg, moving) ==
    Res(TRUE, sg, "SG = " \o ToString(sg), <<Call("getStallGuardResult", 0)>>, moving)

\* case CMD_MOVE_USING_STEP_DIR_INTERFACE
CmdMoveUsingStepDirInterface(moving) ==
    Res(TRUE, 1, "OK", <<Call("moveUsingStepDirInterface", 0)>>, moving)

\* case CMD_IS_SETUP_AND_COMMUNICATING : the driver is read twice (r1 then r2)
CmdIsSetupAndCommunicating(r1, r2, moving) ==
    Res(TRUE, IF r1 THEN 1 ELSE 0, IF r2 THEN "Setup OK" ELSE "Setup failed",
        <<Call("isSetupAndCommunicating", 0), Call("isSetupAndCommunicating", 0)>>, moving)

\* case CMD_SET_REPLY_DELAY
CmdSetReplyDelay(value, moving) ==
    IF IsInt(value)
    THEN Res(TRUE, value.n, "OK", <<Call("setReplyDelay", value.n)>>, moving)
    ELSE Res(FALSE, NO_VALUE, "Delay is int", <<>>, moving)

\* case CMD_IS_STANDING_STILL
CmdIsStandingStill(r1, moving) ==
    Res(TRUE, IF r1 THEN 1 ELSE 0, IF r1 THEN "Standing still" ELSE "Moving",
        <<Call("getStatus", 0)>>, moving)

\* case CMD_RESET_TO_SAFE_CURRENT
CmdResetToSafeCurrent(moving) ==
    Res(TRUE, 1, "Reset to safe current settings", resetToSafeCurrentSettings, moving)

\* default: ; d16 as for FormatD
CmdUnknown(commandCode, moving, d16) ==
    Res(FALSE, commandCode, "Unknown CommandCode " \o FormatD(commandCode, d16), <<>>, moving)

-----------------------------------------------------------------------------
(* sensorlessHoming, final revision *)

\* int32_t velocity = direction * HOMING_SPEED  (uint8_t operands, promoted to int)
SeekVelocity(dir) == dir * HOMING_SPEED

\* -direction * BACKOFF_SPEED  (unary minus on the promoted direction)
BackoffVelocity(dir) == (0 - dir) * BACKOFF_SPEED

\* a variant of the entry of sensorlessHoming without the busy check
sensorlessHomingEntry_NoBusyCheck(dir, moving) ==
    [success |-> FALSE, value |-> NO_VALUE, message |-> "",
     calls |-> << Call("setStallGuardThreshold", STALL_THRESHOLD),
                  Call("enable", 0),
                  Call("moveAtVelocity", SeekVelocity(dir)) >>,
     moving |-> TRUE, homing |-> TRUE]

\* sensorlessHoming up to the polling loop: the busy check, the stall-guard
\* threshold, enable, the seek move, motorMoving = true
sensorlessHomingEntry(dir, moving) ==
    IF moving
    THEN Res(FALSE, NO_VALUE, "Motor is busy", <<>>, moving)
    ELSE [success |-> FALSE, value |-> NO_VALUE, message |-> "",
          calls |-> << Call("setStallGuardThreshold", STALL_THRESHOLD),
                       Call("enable", 0),
                       Call("moveAtVelocity", SeekVelocity(dir)) >>,
          moving |-> TRUE, homing |-> TRUE]

\* case CMD_SENSORLESS_HOMING
CmdSensorlessHoming(value, moving) ==
    IF ~IsUint8(value)
    THEN Res(FALSE, NO_VALUE, "Direction is uint8_t 0 or 1", <<>>, moving)
    ELSE IF ~(value.n = 0 \/ value.n = 1)
    THEN Res(FALSE, NO_VALUE, "Direction is uint8_t 0 or 1", <<>>, moving)
    ELSE sensorlessHomingEntry(value.n, moving)

\* millis() - startTime, in unsigned long arithmetic
Elapsed(t, start) == U32Sub(t, start)

\* a variant of the loop condition that is off by one poll
LoopCondition_Inclusive(t, start) == ~U32Greater(Elapsed(t, start), TIMEOUT_MS)

\* while (millis() - startTime < TIMEOUT_MS)
LoopCondition(t, start) == U32Less(Elapsed(t, start), TIMEOUT_MS)

\* if (stallValue <= STALL_THRESHOLD)
StallTriggered(stallValue) == stallValue <= STALL_THRESHOLD

\* the polls of one homing run are logged as one getStallGuardResult entry
LogPoll(cs) ==
    IF cs # <<>> /\ cs[Len(cs)].op = "getStallGuardResult"
    THEN cs
    ELSE Append(cs, Call("getStallGuardResult", 0))

-----------------------------------------------------------------------------
(* executeCommand, final revision.  rd holds what the driver returns when  *)
(* it is read: b1, b2 (two successive boolean reads) and sg (the           *)
(* stall-guard result).                                                    *)

executeCommand(commandCode, value, moving, rd) ==
    CASE commandCode = CMD_ENABLE -> CmdEnable(value, moving)
      [] commandCode = CMD_SET_HARDWARE_ENABLE_PIN -> CmdSetHardwareEnablePin(value, moving)
      [] commandCode = CMD_HARDWARE_DISABLED -> CmdHardwareDisabled(rd.b1, rd.b2, moving)
      [] commandCode = CMD_ENABLE_ANALOG_CURRENT_SCALING -> CmdEnableAnalogCurrentScaling(moving)
      [] commandCode = CMD_DISABLE_AUTOMATIC_CURRENT_SCALING -> CmdDisableAutomaticCurrentScaling(moving)
      [] commandCode = CMD_ENABLE_AUTOMATIC_CURRENT_SCALING -> CmdEnableAutomaticCurrentScaling(moving)
      [] commandCode = CMD_ENABLE_AUTOMATIC_GRADIENT_ADAPTATION -> CmdEnableAutomaticGradientAdaptation(moving)
      [] commandCode = CMD_SET_PWM_OFFSET -> CmdSetPwmOffset(value, moving)
      [] commandCode = CMD_SET_PWM_GRADIENT -> CmdSetPwmGradient(value, moving)
      [] commandCode = CMD_SET_RUN_CURRENT -> CmdSetRunCurrent(value, moving)
      [] commandCode = CMD_SET_HOLD_CURRENT -> CmdSetHoldCurrent(value, moving)
      [] commandCode = CMD_SET_STANDSTILL_MODE -> CmdSetStandstillMode(value, moving)
      [] commandCode = CMD_SET_STALL_GUARD_THRESHOLD -> CmdSetStallGuardThreshold(value, moving)
      [] commandCode = CMD_SET_MICROSTEPS_PER_STEP -> CmdSetMicrostepsPerStep(value, moving)
      [] commandCode = CMD_SET_MICROSTEPS_PER_STEP_POWER_OF_TWO -> CmdSetMicrostepsPerStepPowerOfTwo(value, moving)
      [] commandCode = CMD_MOVE_AT_VELOCITY -> CmdMoveAtVelocity(value, moving)
      [] commandCode = CMD_MOVE_USING_STEP_DIR_INTERFACE -> CmdMoveUsingStepDirInterface(moving)
      [] commandCode = CMD_IS_SETUP_AND_COMMUNICATING -> CmdIsSetupAndCommunicating(rd.b1, rd.b2, moving)
      [] commandCode = CMD_SET_REPLY_DELAY -> CmdSetReplyDelay(value, moving)
      [] commandCode = CMD_GET_STALL_GUARD_RESULT -> CmdGetStallGuardResult(rd.sg, moving)
      [] commandCode = CMD_IS_STANDING_STILL -> CmdIsStandingStill(rd.b1, moving)
      [] commandCode = CMD_SENSORLESS_HOMING -> CmdSensorlessHoming(value, moving)
      [] commandCode = CMD_RESET_TO_SAFE_CURRENT -> CmdResetToSafeCurrent(moving)
      [] OTHER -> CmdUnknown(commandCode, moving, rd.d16)

-----------------------------------------------------------------------------
(* executeCommand, early revision.  A handler yields, besides the fields   *)
(* above, enabled (motorEnabled), velocity and latest (latestLoopTime)     *)
(* as they are when it returns.                                            *)

ResE(s, v, m, c, mv, en, vel, latest) ==
    [success |-> s, value |-> v, message |-> m, calls |-> c, moving |-> mv,
     enabled |-> en, velocity |-> vel, latest |-> latest]

\* case CMD_ENABLE
CmdEnableEarly(value, moving, en, vel, latest) ==
    IF IsInt32(value)
    THEN IF value.n = 1
         THEN ResE(TRUE, 1, "ENB", <<Call("enable", 0), Call("enable", 0)>>,
                   moving, TRUE, vel, latest)
         ELSE IF value.n = 0
         THEN ResE(TRUE, 0, "DSB",
                   <<Call("disable", 0), Call("moveAtVelocity", 0), Call("disable", 0)>>,
                   FALSE, FALSE, vel, latest)
         ELSE ResE(FALSE, NO_VALUE, "Enable must = 0 or 1", <<>>, moving, en, vel, latest)
    ELSE ResE(FALSE, NO_VALUE, "Enable is int.", <<>>, moving, en, vel, latest)

\* case CMD_SET_VELOCITY ; d16 as for FormatD
CmdSetVelocityEarly(value, moving, en, vel, latest, d16) ==
    IF IsInt32(value)
    THEN ResE(TRUE, value.n, "Velocity set to " \o FormatD(value.n, d16), <<>>,
              moving, en, value.n, latest)
    ELSE ResE(FALSE, NO_VALUE, "Velocity must be int.", <<>>, moving, en, vel, latest)

\* case CMD_MOVE ; t is millis()
CmdMoveEarly(value, moving, en, vel, latest, t) ==
    IF IsInt32(value)
    THEN IF value.n = 1
         THEN IF en
              THEN ResE(TRUE, 1, "Move started", <<>>, TRUE, en, vel, t)
              ELSE ResE(FALSE, NO_VALUE, "Motor not enabled", <<>>, moving, en, vel, latest)
         ELSE IF value.n = 0
         THEN ResE(TRUE, 0, "Move stopped", <<Call("moveAtVelocity", 0)>>,
                   FALSE, en, vel, latest)
         ELSE ResE(FALSE, NO_VALUE, "Move must = 0 or 1", <<>>, moving, en, vel, latest)
    ELSE ResE(FALSE, NO_VALUE, "Move value must be int.", <<>>, moving, en, vel, latest)

\* default: ; d16 as for FormatD
CmdUnknownEarly(commandCode, moving, en, vel, latest, d16) ==
    ResE(FALSE, commandCode, "Unknown CommandCode " \o FormatD(commandCode, d16), <<>>,
         moving, en, vel, latest)

executeCommandEarly(commandCode, value, moving, en, vel, latest, t, d16) ==
    CASE commandCode = CMD_ENABLE -> CmdEnableEarly(value, moving, en, vel, latest)
      [] commandCode = CMD_SET_VELOCITY -> CmdSetVelocityEarly(value, moving, en, vel, latest, d16)
      [] commandCode = CMD_MOVE -> CmdMoveEarly(value, moving, en, vel, latest, t)
      [] OTHER -> CmdUnknownEarly(commandCode, moving, en, vel, latest, d16)

\* velocity *= -1 on int32_t: the values it can leave.  INT32_MIN has no
\* negation in int32_t; the multiplication overflows, which the language
\* leaves undefined (the value wraps to itself or saturates)
Negate32(v) == IF v = INT32_MIN THEN {INT32_MIN, INT32_MAX} ELSE {0 - v}

\* const bool shouldReverse = ((currentTimeStamp - latestLoopTime) > 3000)
shouldReverse(t, latest) == U32Greater(Elapsed(t, latest), REVERSAL_INTERVAL_MS)

\* moveAtVelocity() of the early revision, called with motorMoving true:
\* the velocity and latestLoopTime it leaves, the driver calls, the line
\* printed; neg is what velocity *= -1 leaves
moveAtVelocityEarly(vel, latest, t, neg) ==
    IF shouldReverse(t, latest)
    THEN [velocity |-> neg, latest |-> t,
          calls |-> <<Call("moveAtVelocity", 0), Call("moveAtVelocity", neg)>>,
          printed |-> <<[raw |-> "Reversing motor"]>>]
    ELSE [velocity |-> vel, latest |-> latest,
          calls |-> <<Call("moveAtVelocity", vel)>>,
          printed |-> <<>>]

\* checkStallGuardUart()
checkStallGuardUart(sgResult) == sgResult <= UART_STALL_LIMIT

-----------------------------------------------------------------------------
(* Serial output *)

\* sendResponse, final revision: {"success":..,"message":..,"value":..}
sendResponse(message, success, value) ==
    [success |-> success, message |-> message, value |-> value]

\* sendResponse, early revision: only "message" is serialised
sendResponseEarly(message, success, value) == [message |-> message]

\* sendErrorResponse(errorMessage) : sendResponse(errorMessage, false, 0)
ErrorResp(errorMessage) == [success |-> FALSE, value |-> 0, message |-> errorMessage]

Digit(b) == IF b THEN "1" ELSE "0"

\* the status text loop() of the early revision builds with snprintf
StatusMessage(last, hasNew, uartStall, diagStall) ==
    IF hasNew
    THEN last \o " | UART Stall: " \o Digit(uartStall) \o ", DIAG Stall: " \o Digit(diagStall)
    ELSE "UART Stall: " \o Digit(uartStall) \o ", DIAG Stall: " \o Digit(diagStall)

-----------------------------------------------------------------------------
(* Inputs *)

\* bound: loop() iterations of the early revision that are explored
MaxLoopIterations == 4

\* bound: lines the host sends while one homing run is in progress
MaxPendingLines == 1

Ints(S) == {IntV(k) : k \in S}

\* the "Value" payloads tried with each command code of the final revision:
\* values inside and outside every range, and payloads that are not integers
InputValues(code) ==
    CASE code = CMD_ENABLE -> Ints({-1, 0, 1, 2}) \cup NonInts
      [] code = CMD_SET_HARDWARE_ENABLE_PIN -> Ints({-1, 0, 255, 256}) \cup NonInts
      [] code \in {CMD_SET_PWM_OFFSET, CMD_SET_PWM_GRADIENT, CMD_SET_STALL_GUARD_THRESHOLD} ->
            Ints({-1, 255, 256}) \cup NonInts
      [] code \in {CMD_SET_RUN_CURRENT, CMD_SET_HOLD_CURRENT} ->
            Ints({-1, 100, 101}) \cup NonInts
      [] code = CMD_SET_STANDSTILL_MODE -> Ints({-1, 0, 3, 4}) \cup NonInts
      [] code = CMD_SET_MICROSTEPS_PER_STEP ->
            Ints({-2, 0, 1, 6, 256, 16384, 32768, INT_MIN}) \cup NonInts
      [] code = CMD_SET_MICROSTEPS_PER_STEP_POWER_OF_TWO -> Ints({-1, 0, 6, 7}) \cup NonInts
      [] code = CMD_MOVE_AT_VELOCITY -> Ints({-300, 0}) \cup NonInts
      [] code = CMD_SET_REPLY_DELAY -> Ints({5}) \cup NonInts
      [] code = CMD_SENSORLESS_HOMING -> Ints({-1, 0, 1, 2, 256}) \cup NonInts
      [] OTHER -> {NullV}

\* the payloads tried with each command code of the early revision
InputValuesEarly(code) ==
    CASE code = CMD_ENABLE -> Ints({0, 1, 2}) \cup {NullV}
      [] code = CMD_SET_VELOCITY -> Ints({250, INT32_MIN}) \cup {StrV}
      [] code = CMD_MOVE -> Ints({0, 1, 2}) \cup {BoolV}
      [] OTHER -> {NullV}

\* a command code that does not fit an int
WIDE_CODE == 65559

\* "CommandCode" fields tried: every code, unknown codes, and fields that are not numbers
CodeFields == Ints(0..23) \cup {IntV(WIDE_CODE), StrV}
CodeFieldsEarly == Ints(0..3) \cup {IntV(WIDE_CODE)}

\* input lines: kind is "empty" (nothing to read, or a blank line),
\* "malformed" (deserializeJson fails), "nocode" (no "CommandCode" key), "cmd"
Lines ==
    {[kind |-> k, code |-> NullV] : k \in {"empty", "malformed", "nocode"}}
        \cup {[kind |-> "cmd", code |-> c] : c \in CodeFields}

\* the lines the host sends while a homing run is in progress (no blank ones)
WaitingLines == {l \in Lines : l.kind # "empty"}

LinesEarly ==
    {[kind |-> k, code |-> NullV] : k \in {"empty", "malformed", "nocode"}}
        \cup {[kind |-> "cmd", code |-> c] : c \in CodeFieldsEarly}

\* uint16_t results of stepper.getStallGuardResult()
SgReadings == {10, 11, 480}

\* the StallReading at a poll of sensorlessHoming: what getStallGuardResult()
\* returns, and whether the driver's DIAG output is asserted at that moment
HomingReadings ==
    { [sg |-> STALL_THRESHOLD, diag |-> FALSE],
      [sg |-> STALL_THRESHOLD + 1, diag |-> FALSE],
      [sg |-> UART_STALL_LIMIT + 1, diag |-> TRUE],
      [sg |-> UART_STALL_LIMIT + 1, diag |-> FALSE] }

\* what the driver returns to the reads of one command, and how its "%d"
\* is read (d16)
ReadsFor(code) ==
    IF code \in {CMD_HARDWARE_DISABLED, CMD_IS_SETUP_AND_COMMUNICATING, CMD_IS_STANDING_STILL}
    THEN [b1 : BOOLEAN, b2 : BOOLEAN, sg : {0}, d16 : {FALSE}]
    ELSE IF code = CMD_GET_STALL_GUARD_RESULT
    THEN [b1 : {FALSE}, b2 : {FALSE}, sg : SgReadings, d16 : {FALSE}]
    ELSE [b1 : {FALSE}, b2 : {FALSE}, sg : {0}, d16 : PrintfReads(code)]

\* millis() when a homing run starts: shortly after boot, and shortly before
\* the 32-bit counter wraps
StartTimes == {U32(0, 0), U32(TwoPow16 - 1, TwoPow16 - 2500)}

\* millis() at the first loop() iteration explored (early revision): just
\* after boot, or after idling until shortly before the 32-bit counter wraps
BootClocks == {U32(0, 0), U32(TwoPow16 - 1, TwoPow16 - 4000)}

\* milliseconds one loop() iteration of the early revision takes
LoopDurations == {1000, 2001}

\* parseCommand.  out_value = doc["Value"] refers into doc, a local of
\* parseCommand that is destroyed on return, so what executeCommand reads
\* through it is not determined by the line: it is the payload the host sent
\* or anything else.  Both are drawn from the payloads tried for the code.
parseCommand(line, values) ==
    IF line.kind = "malformed" THEN {[ok |-> FALSE, error |-> "JSON error", code |-> -1, value |-> NullV]}
    ELSE IF line.kind = "nocode" THEN {[ok |-> FALSE, error |-> "Missing CommandCode", code |-> -1, value |-> NullV]}
    ELSE {[ok |-> TRUE, error |-> "", code |-> AsInt32(line.code), value |-> v] : v \in values}

-----------------------------------------------------------------------------
(* State *)

NoCommand == [kind |-> "none", code |-> -1, value |-> NullV]

\* no poll made: stallValue, uartStall and diagStall are locals of a poll
NoReading == [sg |-> 0, diag |-> FALSE, polled |-> FALSE]

\* a poll that read sg from the driver while DIAG was at level diag
Reading(sg, diag) == [sg |-> sg, diag |-> diag, polled |-> TRUE]

\* out_value and out_message as processCommand initialises them
Pending == [success |-> FALSE, value |-> NO_VALUE, message |-> ""]

\* the driver after stepper.setup(): disabled, not moving
DrvPowerOn ==
    [enabled |-> FALSE, runCurrent |-> 0, holdCurrent |-> 0,
     pwmOffset |-> 0, pwmGradient |-> 0, velocity |-> 0]

\* driver calls of setup(), final revision
setupCalls ==
    << Call("setHardwareEnablePin", 0),
       Call("enableAutomaticCurrentScaling", 0),
       Call("enableAutomaticGradientAdaptation", 0),
       Call("setStandstillMode", 0) >> \o resetToSafeCurrentSettings

\* driver calls of setup(), early revision
setupCallsEarly ==
    << Call("enableStealthChop", 0),
       Call("setHardwareEnablePin", 0),
       Call("setMicrostepsPerStepPowerOfTwo", 1) >> \o resetToSafeCurrentSettingsEarly
    \o << Call("setStallGuardThreshold", 252),
          Call("enableAutomaticCurrentScaling", 0),
          Call("enableAutomaticGradientAdaptation", 0) >>

InitFinal ==
    /\ rev = "final"
    /\ pc = "idle"
    /\ motorMoving = FALSE
    /\ motorEnabled = FALSE
    /\ velocity = 0
    /\ latestLoopTime = U32(0, 0)
    /\ lastCommandMessage = ""
    /\ hasNewCommandMessage = FALSE
    /\ drv = DrvApplyAll(DrvPowerOn, setupCalls)
    /\ cmd = NoCommand
    /\ resp = [success |-> TRUE, value |-> 0, message |-> "Ready."]
    /\ calls = <<>>
    /\ out = <<sendResponse("Ready.", TRUE, 0)>>
    /\ now = U32(0, 0)
    /\ startTime = U32(0, 0)
    /\ direction = 0
    /\ iter = 0
    /\ stall = NoReading
    /\ rx = 0

InitEarly ==
    /\ rev = "early"
    /\ pc = "idle"
    /\ motorMoving = FALSE
    /\ motorEnabled = FALSE
    /\ velocity = DEFAULT_VELOCITY
    /\ latestLoopTime = U32(0, 0)
    /\ lastCommandMessage = ""
    /\ hasNewCommandMessage = FALSE
    /\ drv = DrvApplyAll(DrvPowerOn, setupCallsEarly)
    /\ cmd = NoCommand
    /\ resp = Pending
    /\ calls = <<>>
    /\ out = <<>>
    /\ now \in BootClocks
    /\ startTime = U32(0, 0)
    /\ direction = 0
    /\ iter = 0
    /\ stall = NoReading
    /\ rx = 0

Init == InitFinal \/ InitEarly

earlyVars == <<motorEnabled, velocity, latestLoopTime, lastCommandMessage,
               hasNewCommandMessage, iter>>

-----------------------------------------------------------------------------
(* Final revision: loop() / processCommand *)

\* a variant that applies the safe-current policy once the motor is stopped
homingAfterLoop_WithReset(homingSuccess, dir) ==
    IF homingSuccess
    THEN <<Call("moveAtVelocity", 0)>> \o resetToSafeCurrentSettings
         \o <<Call("moveAtVelocity", BackoffVelocity(dir))>>
    ELSE <<Call("moveAtVelocity", 0)>> \o resetToSafeCurrentSettings

\* the driver calls of sensorlessHoming between the polling loop and the
\* backoff delay (or the return, after a timeout)
homingAfterLoop(homingSuccess, dir) ==
    IF homingSuccess
    THEN <<Call("moveAtVelocity", 0), Call("moveAtVelocity", BackoffVelocity(dir))>>
    ELSE <<Call("moveAtVelocity", 0)>>

\* a variant in which Serial is also read while sensorlessHoming runs
LoopReadsSerial_DuringHoming(p) == p \in {"idle", "seeking", "backoff"}

\* Serial is read by loop() only: processCommand, and sensorlessHoming inside
\* it, return before the next Serial.available()
LoopReadsSerial(p) == p = "idle"

\* the host sends a line while sensorlessHoming runs: it waits in the receive
\* buffer.  (A line sent while loop() is spinning is read by its next
\* iteration: ReceiveLine is both the arrival and the read.)
HostSendsLine ==
    /\ rev = "final"
    /\ pc \in {"seeking", "backoff"}
    /\ rx < MaxPendingLines
    /\ rx' = rx + 1
    /\ UNCHANGED <<rev, pc, motorMoving, drv, cmd, resp, calls, out, now,
                   startTime, direction, stall>>
    /\ UNCHANGED earlyVars

\* one loop() iteration: nothing to read, or one line read and processed
\* up to its Response (or, for a homing run, up to the first poll)
ReceiveLine ==
    /\ rev = "final"
    /\ LoopReadsSerial(pc)
    /\ rx' = IF rx > 0 THEN rx - 1 ELSE 0
    /\ stall' = NoReading
    /\ \E line \in IF rx > 0 THEN WaitingLines ELSE Lines :
         IF line.kind = "empty"
         THEN /\ UNCHANGED <<rev, pc, motorMoving, drv, cmd, resp, calls, out, now,
                             startTime, direction>>
              /\ UNCHANGED earlyVars
         ELSE \E p \in parseCommand(line, InputValues(AsInt32(line.code))) :
              IF ~p.ok
              THEN /\ cmd' = [kind |-> line.kind, code |-> p.code, value |-> p.value]
                   /\ resp' = ErrorResp(p.error)
                   /\ calls' = <<>>
                   /\ out' = <<sendResponse(p.error, FALSE, 0)>>
                   /\ UNCHANGED <<rev, pc, motorMoving, drv, now, startTime, direction>>
                   /\ UNCHANGED earlyVars
              ELSE \E rd \in ReadsFor(p.code) :
                   \E r \in {executeCommand(p.code, p.value, motorMoving, rd)} :
                      /\ cmd' = [kind |-> "cmd", code |-> p.code, value |-> p.value]
                      /\ motorMoving' = r.moving
                      /\ calls' = r.calls
                      /\ drv' = DrvApplyAll(drv, r.calls)
                      /\ IF r.homing
                         THEN /\ pc' = "seeking"
                              /\ resp' = Pending
                              /\ out' = <<>>
                              /\ direction' = p.value.n
                              /\ \E t \in StartTimes : startTime' = t /\ now' = t
                         ELSE /\ pc' = "idle"
                              /\ resp' = [success |-> r.success, value |-> r.value,
                                          message |-> r.message]
                              /\ out' = <<sendResponse(r.message, r.success, r.value)>>
                              /\ UNCHANGED <<now, startTime, direction>>
                      /\ UNCHANGED rev
                      /\ UNCHANGED earlyVars

\* one pass of the polling loop of sensorlessHoming: the loop condition, then
\* either a poll and delay(10), or a poll that sees the stall, the stop and
\* the backoff move, or (condition false) the stop and the timeout Response
HomingPoll ==
    /\ rev = "final"
    /\ pc = "seeking"
    /\ IF LoopCondition(now, startTime)
       THEN \E rdg \in HomingReadings :
            /\ stall' = Reading(rdg.sg, rdg.diag)
            /\ IF StallTriggered(rdg.sg)
              THEN /\ calls' = LogPoll(calls) \o homingAfterLoop(TRUE, direction)
                   /\ drv' = DrvApplyAll(drv, homingAfterLoop(TRUE, direction))
                   /\ motorMoving' = TRUE
                   /\ pc' = "backoff"
                   /\ now' = U32(0, 0) /\ startTime' = U32(0, 0)
                   /\ UNCHANGED <<resp, out, direction>>
              ELSE /\ calls' = LogPoll(calls)
                   /\ now' = U32Add(now, POLL_DELAY_MS)
                   /\ UNCHANGED <<pc, motorMoving, drv, resp, out, startTime, direction>>
       ELSE /\ stall' = NoReading
            /\ calls' = calls \o homingAfterLoop(FALSE, direction)
            /\ drv' = DrvApplyAll(drv, homingAfterLoop(FALSE, direction))
            /\ motorMoving' = FALSE
            /\ resp' = [success |-> FALSE, value |-> 0, message |-> "Homing timeout"]
            /\ out' = <<sendResponse("Homing timeout", FALSE, 0)>>
            /\ pc' = "idle"
            /\ now' = U32(0, 0) /\ startTime' = U32(0, 0) /\ direction' = 0
    /\ UNCHANGED <<rev, cmd, rx>>
    /\ UNCHANGED earlyVars

\* HomingBackoffEnd with a delay(BACKOFF_DURATION_MS) that does not return
HomingBackoffEnd_NeverReturns ==
    /\ rev = "final"
    /\ pc = "backoff"
    /\ UNCHANGED vars

\* the end of delay(BACKOFF_DURATION_MS): the final stop and the Response
HomingBackoffEnd ==
    /\ rev = "final"
    /\ pc = "backoff"
    /\ calls' = Append(calls, Call("moveAtVelocity", 0))
    /\ drv' = DrvApply(drv, Call("moveAtVelocity", 0))
    /\ motorMoving' = FALSE
    /\ resp' = [success |-> TRUE, value |-> 1, message |-> "Homing successful"]
    /\ out' = <<sendResponse("Homing successful", TRUE, 1)>>
    /\ pc' = "idle"
    /\ direction' = 0
    /\ stall' = NoReading
    /\ UNCHANGED <<rev, cmd, now, startTime, rx>>
    /\ UNCHANGED earlyVars

-----------------------------------------------------------------------------
(* Early revision: loop() *)

\* processCommand of the early revision in state (moving, en, vel, latest) at
\* clock t: what it leaves in the globals, and the lines it sends
processCommandEarly(p, moving, en, vel, latest, lastMsg, t, d16) ==
    IF ~p.ok
    THEN [dispatched |-> FALSE, resp |-> ErrorResp(p.error), calls |-> <<>>,
          moving |-> moving, enabled |-> en, velocity |-> vel, latest |-> latest,
          lastMsg |-> lastMsg, hasNew |-> FALSE,
          sent |-> <<sendResponseEarly(p.error, FALSE, 0)>>]
    ELSE LET r == executeCommandEarly(p.code, p.value, moving, en, vel, latest, t, d16)
         IN [dispatched |-> TRUE,
             resp |-> [success |-> r.success, value |-> r.value, message |-> r.message],
             calls |-> r.calls,
             moving |-> r.moving, enabled |-> r.enabled, velocity |-> r.velocity,
             latest |-> r.latest,
             lastMsg |-> r.message, hasNew |-> TRUE,
             sent |-> <<>>]

\* the integer that the handler of parsed command p formats with %d
PrintedInt(p) ==
    IF p.ok /\ p.code = CMD_SET_VELOCITY /\ IsInt32(p.value) THEN p.value.n ELSE p.code

\* one loop() iteration of the early revision
LoopEarly ==
    /\ rev = "early"
    /\ pc = "idle"
    /\ iter < MaxLoopIterations
    /\ \E line \in LinesEarly, sgResult \in {UART_STALL_LIMIT, UART_STALL_LIMIT + 1},
          diagLow \in BOOLEAN, dt \in LoopDurations :
         \E p \in parseCommand(line, InputValuesEarly(AsInt32(line.code))) :
         \E d16 \in PrintfReads(PrintedInt(p)) :
         \E c \in {IF line.kind # "empty"
                   THEN processCommandEarly(p, motorMoving, motorEnabled, velocity,
                                            latestLoopTime, lastCommandMessage, now, d16)
                   ELSE [dispatched |-> FALSE, resp |-> Pending, calls |-> <<>>,
                         moving |-> motorMoving, enabled |-> motorEnabled,
                         velocity |-> velocity, latest |-> latestLoopTime,
                         lastMsg |-> lastCommandMessage, hasNew |-> hasNewCommandMessage,
                         sent |-> <<>>]} :
         \E neg \in Negate32(c.velocity) :
         \E m \in {IF c.enabled /\ c.moving
                   THEN moveAtVelocityEarly(c.velocity, c.latest, now, neg)
                   ELSE [velocity |-> c.velocity, latest |-> c.latest,
                         calls |-> <<>>, printed |-> <<>>]} :
            /\ cmd' = IF line.kind # "empty"
                      THEN [kind |-> line.kind, code |-> p.code, value |-> p.value]
                      ELSE NoCommand
            /\ resp' = c.resp
            /\ calls' = c.calls
            /\ motorMoving' = c.moving
            /\ motorEnabled' = c.enabled
            /\ velocity' = m.velocity
            /\ latestLoopTime' = m.latest
            /\ lastCommandMessage' = c.lastMsg
            /\ hasNewCommandMessage' = FALSE
            /\ drv' = DrvApplyAll(DrvApplyAll(drv, c.calls), m.calls)
            /\ out' = c.sent \o m.printed
                      \o <<sendResponseEarly(
                             StatusMessage(c.lastMsg, c.hasNew,
                                           checkStallGuardUart(sgResult), diagLow),
                             TRUE, 0)>>
            /\ now' = U32Add(now, dt)
            /\ iter' = iter + 1
            /\ stall' = Reading(sgResult, diagLow)
    /\ UNCHANGED <<rev, pc, startTime, direction, rx>>

-----------------------------------------------------------------------------

Next == ReceiveLine \/ HostSendsLine \/ HomingPoll \/ HomingBackoffEnd \/ LoopEarly

Spec == Init /\ [][Next]_vars

\* the final revision alone, the one that has sensorlessHoming
NextFinal == ReceiveLine \/ HostSendsLine \/ HomingPoll \/ HomingBackoffEnd

\* the final revision with the scheduling of sensorlessHoming: the routine
\* is straight-line code on a single thread, so once it is entered its
\* polling loop keeps running and each delay() returns as millis() advances
SpecLive ==
    InitFinal /\ [][NextFinal]_vars /\ WF_vars(HomingPoll) /\ WF_vars(HomingBackoffEnd)

-----------------------------------------------------------------------------
(* sendResponse at the level of the bytes it writes.  The commands of the  *)
(* firmware only build short messages; here sendResponse is given every    *)
(* message that fits out_message (up to OUTPUT_BUFFER_SIZE - 1 characters).*)

\* bytes one member takes in the pool of a StaticJsonDocument on the Uno.
\* The keys are literals and message is a const char*: ArduinoJson keeps
\* both by pointer, no copy is made in the pool
SLOT_SIZE == 8

\* members sendResponse puts into response
ResponseMembers(r) == IF r = "final" THEN 3 ELSE 1

\* response.overflowed() : the pool of OUTPUT_BUFFER_SIZE bytes could not
\* hold what was put into the document
overflowed(r) == ResponseMembers(r) * SLOT_SIZE > OUTPUT_BUFFER_SIZE

\* the text serializeJson produces for response
JsonText(r, message, success, value) ==
    IF r = "final"
    THEN "{\"success\":" \o (IF success THEN "true" ELSE "false")
         \o ",\"message\":\"" \o message
         \o "\",\"value\":" \o ToString(value) \o "}"
    ELSE "{\"message\":\"" \o message \o "\"}"

\* serializeJson(response, jsonBuffer, sizeof(jsonBuffer)) : at most
\* sizeof(jsonBuffer) characters are written, and the terminator only if
\* there is room left for it
serializeJson(text) ==
    [text |-> text,
     written |-> IF Len(text) < OUTPUT_BUFFER_SIZE THEN Len(text) ELSE OUTPUT_BUFFER_SIZE,
     terminated |-> Len(text) < OUTPUT_BUFFER_SIZE]

\* sendResponse: what goes to Serial.  After an overflow the function never
\* returns: it prints "Overflowed." for ever.  Otherwise jsonBuffer is
\* printed: the characters written, and, without a terminator, whatever
\* follows the buffer in memory
sendResponseBytes(r, message, success, value) ==
    IF overflowed(r)
    THEN [halted |-> TRUE, lines |-> <<[raw |-> "Overflowed."]>>]
    ELSE [halted |-> FALSE,
          lines |-> <<serializeJson(JsonText(r, message, success, value))>>]

\* a message of n characters
RECURSIVE Pad(_)
Pad(n) ==
    IF n = 0 THEN ""
    ELSE IF n % 2 = 0 THEN Pad(n \div 2) \o Pad(n \div 2)
    ELSE "m" \o Pad(n - 1)

\* the messages out_message[OUTPUT_BUFFER_SIZE] can hold
EncodeMessages == {Pad(n) : n \in 0..(OUTPUT_BUFFER_SIZE - 1)}

\* out_value: the default, zero, the largest
EncodeValues == {NO_VALUE, 0, INT32_MAX}

InitEncode ==
    /\ rev \in {"final", "early"}
    /\ pc = "encode"
    /\ motorMoving = FALSE
    /\ motorEnabled = FALSE
    /\ velocity = 0
    /\ latestLoopTime = U32(0, 0)
    /\ lastCommandMessage = ""
    /\ hasNewCommandMessage = FALSE
    /\ drv = DrvPowerOn
    /\ cmd = NoCommand
    /\ resp = Pending
    /\ calls = <<>>
    /\ out = <<>>
    /\ now = U32(0, 0)
    /\ startTime = U32(0, 0)
    /\ direction = 0
    /\ iter = 0
    /\ stall = NoReading
    /\ rx = 0

\* one call of sendResponse
Encode ==
    /\ pc = "encode"
    /\ \E message \in EncodeMessages, success \in BOOLEAN, value \in EncodeValues :
         \E e \in {sendResponseBytes(rev, message, success, value)} :
            /\ resp' = [success |-> success, value |-> value, message |-> message]
            /\ out' = e.lines
            /\ pc' = IF e.halted THEN "halted" ELSE "encode"
    /\ UNCHANGED <<rev, motorMoving, motorEnabled, velocity, latestLoopTime,
                   lastCommandMessage, hasNewCommandMessage, drv, cmd, calls,
                   now, startTime, direction, iter, stall, rx>>

NextEncode == Encode

SpecEncode == InitEncode /\ [][NextEncode]_vars

-----------------------------------------------------------------------------
(* Properties *)

\* MotorState.enabled: the early revision keeps motorEnabled; the final
\* revision keeps no flag, the driver's enable state is all there is
Enabled == IF rev = "final" THEN drv.enabled ELSE motorEnabled

\* the step handles (dispatches to executeCommand) a command with this code
Handles(code) == pc = "idle" /\ cmd'.kind = "cmd" /\ cmd'.code = code

SafeReset == IF rev = "final" THEN resetToSafeCurrentSettings
             ELSE resetToSafeCurrentSettingsEarly

\* the safe-current policy was applied by the calls cs
ResetApplied(cs) ==
    \E i \in 1..Len(cs) :
        i + 3 <= Len(cs) /\ SubSeq(cs, i, i + 3) = SafeReset

\* the driver's currents and PWM tuning are the safe ones
SafeCurrents(d) ==
    /\ d.runCurrent = SafeReset[1].arg
    /\ d.holdCurrent = SafeReset[2].arg
    /\ d.pwmOffset = 0
    /\ d.pwmGradient = 0

\* the value constraints the commands declare (final revision unless noted)
ValidatingCodes ==
    {CMD_ENABLE, CMD_SET_RUN_CURRENT, CMD_SET_HOLD_CURRENT, CMD_SET_PWM_OFFSET,
     CMD_SET_PWM_GRADIENT, CMD_SET_STALL_GUARD_THRESHOLD, CMD_SET_STANDSTILL_MODE,
     CMD_SET_MICROSTEPS_PER_STEP_POWER_OF_TWO, CMD_SET_MICROSTEPS_PER_STEP,
     CMD_MOVE_AT_VELOCITY, CMD_SET_REPLY_DELAY, CMD_SENSORLESS_HOMING}

PowersOfTwo == {1, 2, 4, 8, 16, 32, 64, 128, 256, 512, 1024, 2048, 4096, 8192, 16384}

DeclaredRange(code) ==
    CASE code = CMD_ENABLE -> 0..1
      [] code \in {CMD_SET_RUN_CURRENT, CMD_SET_HOLD_CURRENT} -> 0..100
      [] code \in {CMD_SET_PWM_OFFSET, CMD_SET_PWM_GRADIENT,
                   CMD_SET_STALL_GUARD_THRESHOLD} -> 0..255
      [] code = CMD_SET_STANDSTILL_MODE -> 0..3
      [] code = CMD_SET_MICROSTEPS_PER_STEP_POWER_OF_TWO -> 0..6
      [] code = CMD_SET_MICROSTEPS_PER_STEP -> PowersOfTwo
      [] code = CMD_SENSORLESS_HOMING -> 0..1
      [] OTHER -> INT_MIN..INT_MAX

\* the payload is of the wrong type, or outside the declared range
InvalidValue(code, value) == value.t # "int" \/ value.n \notin DeclaredRange(code)

\* a poll of the homing loop: getStallGuardResult() was read in this step
Polls == pc = "seeking" /\ stall'.polled /\ (now' # now \/ pc' # "seeking")

\* the fused stall predicate: register magnitude <= 480 or DIAG asserted
FusedStall(r) == r.sg <= UART_STALL_LIMIT \/ r.diag

\* C1: a command that validates its value and gets a value of the wrong type
\* or outside its range answers success=false, calls no driver operation and
\* leaves MotorState (moving, enabled, velocity) as it was.
C1_InvalidValueRejected ==
    [][ /\ (rev = "final" /\ \E code \in ValidatingCodes :
                               Handles(code) /\ InvalidValue(code, cmd'.value))
           => /\ resp'.success = FALSE
              /\ out' = <<sendResponse(resp'.message, FALSE, resp'.value)>>
              /\ calls' = <<>>
              /\ drv' = drv
              /\ motorMoving' = motorMoving
              /\ pc' = "idle"
        /\ (rev = "early" /\ Handles(CMD_ENABLE) /\ InvalidValue(CMD_ENABLE, cmd'.value))
           => /\ resp'.success = FALSE
              /\ calls' = <<>>
              /\ motorMoving' = motorMoving
              /\ motorEnabled' = motorEnabled
              /\ executeCommandEarly(cmd'.code, cmd'.value, motorMoving, motorEnabled,
                                     velocity, latestLoopTime, now, FALSE).velocity = velocity
      ]_vars

\* C1 witness: an out-of-range run current was rejected while the motor was
\* moving with a non-default run current
C1_Witness ==
    /\ rev = "final" /\ pc = "idle"
    /\ cmd.kind = "cmd" /\ cmd.code = CMD_SET_RUN_CURRENT /\ cmd.value = IntV(101)
    /\ resp.success = FALSE
    /\ motorMoving /\ drv.runCurrent = 100

\* C2: moving == true implies enabled == true in every reachable state.
C2_MovingImpliesEnabled == motorMoving => Enabled

\* C3: Enable(0) handled while moving leaves moving == false, enabled ==
\* false and the safe-current values applied to the driver.
C3_DisableStopsAndResets ==
    [][ (Handles(CMD_ENABLE) /\ cmd'.value = IntV(0) /\ motorMoving)
        => /\ motorMoving' = FALSE
           /\ Enabled' = FALSE
           /\ ResetApplied(calls')
           /\ SafeCurrents(drv')
      ]_vars

\* C4: every step that takes the motor from moving to stopped or from
\* enabled to disabled applies the safety-current reset among the driver
\* calls of the command, before its Response.
C4_EveryStopResets ==
    [][ ((motorMoving /\ ~motorMoving') \/ (Enabled /\ ~Enabled'))
        => ResetApplied(calls') /\ SafeCurrents(drv')
      ]_vars

\* C5: after MoveAtVelocity(0) the velocity last commanded to the driver is 0
\* and moving == false; after MoveAtVelocity(v), v != 0, moving == true and
\* the driver was commanded exactly v.
C5_MoveAtVelocityCommandsDriver ==
    (rev = "final" /\ pc = "idle" /\ cmd.kind = "cmd"
       /\ cmd.code = CMD_MOVE_AT_VELOCITY /\ IsInt(cmd.value))
    => IF cmd.value.n = 0
       THEN drv.velocity = 0 /\ motorMoving = FALSE
       ELSE drv.velocity = cmd.value.n /\ motorMoving = TRUE

\* C6: MoveAtVelocity(0) is idempotent: handled right after a MoveAtVelocity(0)
\* it leaves MotorState and the driver configuration as they were, and both
\* return success=true.
C6_StopIdempotent ==
    [][ (rev = "final" /\ cmd.kind = "cmd" /\ cmd.code = CMD_MOVE_AT_VELOCITY
           /\ cmd.value = IntV(0)
           /\ Handles(CMD_MOVE_AT_VELOCITY) /\ cmd'.value = IntV(0))
        => /\ resp.success = TRUE
           /\ resp'.success = TRUE
           /\ motorMoving' = motorMoving
           /\ drv' = drv
      ]_vars

\* C6 witness: MoveAtVelocity(0) was handled after a move at a non-zero
\* velocity and after non-safe currents had been set
C6_Witness ==
    /\ rev = "final" /\ pc = "idle"
    /\ cmd.kind = "cmd" /\ cmd.code = CMD_MOVE_AT_VELOCITY /\ cmd.value = IntV(0)
    /\ resp.success = TRUE
    /\ drv.velocity # 0
    /\ SafeCurrents(drv) /\ ResetApplied(calls)

\* C7: SensorlessHoming with a valid direction while moving == true answers
\* the Busy failure, leaves MotorState as it was and calls no driver operation.
C7_HomingBusy ==
    [][ (rev = "final" /\ Handles(CMD_SENSORLESS_HOMING) /\ motorMoving
           /\ cmd'.value \in {IntV(0), IntV(1)})
        => /\ resp' = [success |-> FALSE, value |-> NO_VALUE, message |-> "Motor is busy"]
           /\ out' = <<sendResponse("Motor is busy", FALSE, NO_VALUE)>>
           /\ calls' = <<>>
           /\ drv' = drv
           /\ motorMoving' = TRUE
           /\ pc' = "idle"
      ]_vars

\* C7 witness: a homing request with direction 1 was refused as busy
C7_Witness ==
    /\ rev = "final" /\ pc = "idle"
    /\ cmd.kind = "cmd" /\ cmd.code = CMD_SENSORLESS_HOMING /\ cmd.value = IntV(1)
    /\ resp.message = "Motor is busy"
    /\ motorMoving

\* C8: for either direction, a homing run that saw a stall reports success and
\* the driver calls after the detection are exactly a stop, one backoff move
\* with non-zero velocity of the sign opposite to the seek velocity, and a stop.
C8_StallThenBackoff ==
    (rev = "final" /\ pc = "idle" /\ cmd.kind = "cmd"
       /\ cmd.code = CMD_SENSORLESS_HOMING /\ resp.message = "Homing successful")
    => /\ resp.success = TRUE
       /\ Len(calls) = 7
       /\ calls[3].op = "moveAtVelocity"
       /\ calls[4].op = "getStallGuardResult"
       /\ calls[5] = Call("moveAtVelocity", 0)
       /\ calls[6].op = "moveAtVelocity"
       /\ calls[6].arg # 0
       /\ calls[6].arg * calls[3].arg < 0
       /\ calls[7] = Call("moveAtVelocity", 0)

\* C9: a homing run in which no poll sees a stall leaves the polling loop only
\* once the elapsed time has reached TIMEOUT_MS, and less than one polling
\* interval after that; it stops the motor, answers the Timeout failure and
\* makes no move at a non-zero velocity after the seek move.
C9_TimeoutNoBackoff ==
    [][ (rev = "final" /\ pc = "seeking" /\ pc' = "idle")
        => /\ ~U32Less(Elapsed(now, startTime), TIMEOUT_MS)
           /\ U32Less(Elapsed(now, startTime), TIMEOUT_MS + POLL_DELAY_MS)
           /\ resp' = [success |-> FALSE, value |-> 0, message |-> "Homing timeout"]
           /\ out' = <<sendResponse("Homing timeout", FALSE, 0)>>
           /\ motorMoving' = FALSE
           /\ drv'.velocity = 0
           /\ calls'[Len(calls')] = Call("moveAtVelocity", 0)
           /\ \A i \in 4..Len(calls') :
                 calls'[i].op = "moveAtVelocity" => calls'[i].arg = 0
      ]_vars

\* C9 witness: a homing run in direction 1 (seek velocity HOMING_SPEED) has
\* timed out
C9_Witness ==
    /\ rev = "final" /\ pc = "idle"
    /\ cmd.kind = "cmd" /\ cmd.code = CMD_SENSORLESS_HOMING /\ cmd.value = IntV(1)
    /\ resp.message = "Homing timeout"
    /\ calls[3] = Call("moveAtVelocity", HOMING_SPEED)

\* C10: the two accepted direction inputs give seek velocities that are
\* non-zero, of magnitude HOMING_SPEED, and of opposite sign.
C10_SeekVelocity ==
    (rev = "final" /\ pc = "seeking")
    => /\ drv.velocity \in {HOMING_SPEED, 0 - HOMING_SPEED}
       /\ SeekVelocity(0) * SeekVelocity(1) < 0

\* C11: at any poll of the homing loop where the stall-guard register is <= 480
\* or the DIAG level is asserted, homing leaves the seeking loop as a detected
\* stall (the stop and the backoff follow).
C11_FusedStallEndsSeeking ==
    [][ (rev = "final" /\ Polls /\ FusedStall(stall')) => pc' = "backoff" ]_vars

\* the step reads a line that parseCommand rejects
ReadsRejectedLine == pc = "idle" /\ cmd'.kind \in {"malformed", "nocode"}

\* an outbound line that is a failure Response: it carries success = false
IsFailureLine(l) == "success" \in DOMAIN l /\ l.success = FALSE

\* C12: a line that is not well-formed, or that has no CommandCode, results in
\* exactly one outbound line, a failure Response; nothing is dispatched, no
\* driver operation is called and MotorState (moving, enabled) is unchanged.
C12_RejectedLineOneFailure ==
    [][ ReadsRejectedLine =>
          /\ Len(out') = 1
          /\ IsFailureLine(out'[1])
          /\ calls' = <<>>
          /\ motorMoving' = motorMoving
          /\ Enabled' = Enabled ]_vars

\* the command codes executeCommand has a case for
RecognisedCodes == IF rev = "final" THEN CMD_ENABLE..CMD_RESET_TO_SAFE_CURRENT
                   ELSE CMD_ENABLE..CMD_MOVE

\* C13: a command whose code is not a recognised one answers success=false
\* with the code as value and in the message, calls no driver operation and
\* leaves MotorState (moving, enabled) as it was.
C13_UnknownCodeEchoed ==
    [][ (pc = "idle" /\ cmd'.kind = "cmd" /\ cmd'.code \notin RecognisedCodes) =>
          /\ resp'.success = FALSE
          /\ resp'.value = cmd'.code
          /\ resp'.message = "Unknown CommandCode " \o ToString(cmd'.code)
          /\ calls' = <<>>
          /\ motorMoving' = motorMoving
          /\ Enabled' = Enabled ]_vars

\* the step ends the handling of a dispatched command that failed
FailedCommand == cmd'.kind = "cmd" /\ pc' = "idle" /\ ~resp'.success

\* C14: every dispatched command that fails (validation error, busy, unknown
\* code, homing timeout, motor not enabled) gets exactly one Response line,
\* which carries success=false and the handler's message.
C14_FailureOneLine ==
    [][ FailedCommand =>
          /\ Len(out') = 1
          /\ IsFailureLine(out'[1])
          /\ out'[1].message = resp'.message ]_vars

\* the step takes a line from Serial and decodes it
ReadsLine == rx' < rx \/ cmd' # cmd

\* the Response to the line read last has been written to Serial: by
\* sendResponse (final revision), or by parseCommand's error line or inside
\* the status line of the iteration (early revision)
ResponseEmitted ==
    \/ cmd.kind = "none"
    \/ rev = "final" /\ out = <<sendResponse(resp.message, resp.success, resp.value)>>
    \/ rev = "early" /\ cmd.kind # "cmd" /\ out # <<>> /\ out[1].message = resp.message
    \/ rev = "early" /\ cmd.kind = "cmd" /\ out # <<>>
          /\ \E u, d \in BOOLEAN :
                out[Len(out)].message = StatusMessage(resp.message, TRUE, u, d)

LineTooLong ==
    Len(JsonText(rev, resp.message, resp.success, resp.value)) >= OUTPUT_BUFFER_SIZE

SucceededCommand == cmd'.kind = "cmd" /\ pc' = "idle" /\ resp'.success

\* C17: every command handler that succeeds calls exactly one driver
\* operation: never none, never two, never the same one twice.
C17_SuccessOneDriverCall ==
    [][ SucceededCommand => Len(calls') = 1 ]_vars

\* the settings the safe-current policy is about
CurrentSettings(d) == <<d.runCurrent, d.holdCurrent, d.pwmOffset, d.pwmGradient>>

\* a step of a homing run that passed the busy check: its entry, a poll, the
\* stop, the backoff, its return
HomingStep == rev = "final" /\ (pc # "idle" \/ pc' # "idle")

\* C18: a homing run that passed the busy check ends, after a stall and after
\* a timeout alike, with moving == false, and no step of it changes the run
\* current, the hold current, the PWM offset or the PWM gradient.
C18_HomingKeepsCurrents ==
    [][ HomingStep =>
          /\ CurrentSettings(drv') = CurrentSettings(drv)
          /\ (pc' = "idle" => ~motorMoving') ]_vars

\* C18 witness: a homing run started with a run current of 100% has found
\* the stall, backed off and returned
C18_Witness ==
    /\ rev = "final" /\ pc = "idle"
    /\ cmd.code = CMD_SENSORLESS_HOMING
    /\ resp.message = "Homing successful"
    /\ drv.runCurrent = 100
    /\ ~motorMoving

\* the driver as it is after each of the calls cs, made in order from d
RECURSIVE DrvTrace(_, _)
DrvTrace(d, cs) ==
    IF cs = <<>> THEN <<>>
    ELSE <<DrvApply(d, Head(cs))>> \o DrvTrace(DrvApply(d, Head(cs)), Tail(cs))

\* C19: Enable with value 0 stops the motion and then disables the driver:
\* velocity 0 is commanded before disable is issued, so the driver is never
\* disabled while the velocity last commanded to it is non-zero, neither
\* after the command nor between two of its driver calls.
C19_StopBeforeDisable ==
    [][ (Handles(CMD_ENABLE) /\ cmd'.value = IntV(0)) =>
          /\ \E i \in 1..Len(calls') : calls'[i].op = "disable"
          /\ \A i \in 1..Len(calls') :
                LET d == DrvTrace(drv, calls')[i]
                IN ~d.enabled => d.velocity = 0 ]_vars

\* the status text an iteration owes: the Response text of the command
\* dispatched in it followed by the stall readings, or the readings alone
StatusOwed ==
    StatusMessage(resp'.message, cmd'.kind = "cmd",
                  checkStallGuardUart(stall'.sg), stall'.diag)

\* C20: every iteration of the status-reporting loop emits exactly one
\* outbound line: the Response text of the last command with the stall
\* readings if and only if a command was dispatched since the previous status
\* line, else the stall readings alone; the flag is consumed by that line, so
\* a command's Response text appears in one status line only.
C20_OneStatusLinePerIteration ==
    [][ (rev = "early" /\ iter' # iter) =>
          /\ Len(out') = 1
          /\ out'[1].message = StatusOwed
          /\ ~hasNewCommandMessage' ]_vars

-----------------------------------------------------------------------------
(* Early revision: the reversal self-test *)

\* the velocity and the reference timestamp that moveAtVelocity() finds in an
\* iteration: those before it, unless the command dispatched in the iteration
\* set the velocity or started the motion
VelocityFound == IF cmd'.code = CMD_SET_VELOCITY /\ resp'.success
                 THEN cmd'.value.n ELSE velocity
TimestampFound == IF cmd'.code = CMD_MOVE /\ resp'.message = "Move started"
                  THEN now ELSE latestLoopTime

\* an iteration in which the motor is enabled and moving when
\* moveAtVelocity() runs
SelfTestIteration == rev = "early" /\ iter' # iter /\ motorEnabled' /\ motorMoving'

\* C21: in every loop() iteration with the motor enabled and moving, if more
\* than 3000 ms have passed since the last reversal timestamp the velocity is
\* negated, the timestamp becomes the current time and the negated velocity
\* is commanded to the driver; otherwise velocity and timestamp are unchanged
\* and the current velocity is commanded again.
C21_ReversalSelfTest ==
    [][ SelfTestIteration =>
          IF U32Greater(U32Sub(now, TimestampFound), REVERSAL_INTERVAL_MS)
          THEN /\ VelocityFound # INT32_MIN
               /\ velocity' = 0 - VelocityFound
               /\ latestLoopTime' = now
               /\ drv'.velocity = velocity'
          ELSE /\ velocity' = VelocityFound
               /\ latestLoopTime' = TimestampFound
               /\ drv'.velocity = velocity' ]_vars

\* the same for every velocity that has a negation in int32_t
C21_ReversalOfNegatable ==
    [][ (SelfTestIteration /\ VelocityFound # INT32_MIN) =>
          IF U32Greater(U32Sub(now, TimestampFound), REVERSAL_INTERVAL_MS)
          THEN /\ velocity' = 0 - VelocityFound
               /\ latestLoopTime' = now
               /\ drv'.velocity = velocity'
          ELSE /\ velocity' = VelocityFound
               /\ latestLoopTime' = TimestampFound
               /\ drv'.velocity = velocity' ]_vars

-----------------------------------------------------------------------------
(* Final revision: the read-only commands *)

ReadOnlyCodes == {CMD_GET_STALL_GUARD_RESULT, CMD_IS_STANDING_STILL,
                  CMD_HARDWARE_DISABLED, CMD_IS_SETUP_AND_COMMUNICATING}

\* the Response value and the Response message of read-only command code
\* denote the same driver state.  The two-valued answers follow the
\* convention of the Enable command: 1 with the affirmative text ("ENB" for
\* enabled), 0 with the negative one.
SameDriverState(code, r) ==
    CASE code = CMD_GET_STALL_GUARD_RESULT -> r.message = "SG = " \o ToString(r.value)
      [] code = CMD_IS_STANDING_STILL ->
            \/ r.value = 1 /\ r.message = "Standing still"
            \/ r.value = 0 /\ r.message = "Moving"
      [] code = CMD_HARDWARE_DISABLED ->
            \/ r.value = 1 /\ r.message = "ENB"
            \/ r.value = 0 /\ r.message = "DSB"
      [] code = CMD_IS_SETUP_AND_COMMUNICATING ->
            \/ r.value = 1 /\ r.message = "Setup OK"
            \/ r.value = 0 /\ r.message = "Setup failed"

\* C22: GetStallGuardResult, IsStandingStill, HardwareDisabled and
\* IsSetupAndCommunicating always answer success=true, their Response value
\* and Response message denote the same driver state, and they leave the
\* moving flag and the driver as they were.
C22_ReadOnlyCommandsAgree ==
    [][ \A code \in ReadOnlyCodes :
          (rev = "final" /\ Handles(code)) =>
            /\ resp'.success
            /\ SameDriverState(code, resp')
            /\ motorMoving' = motorMoving
            /\ drv' = drv ]_vars

\* the same without HardwareDisabled and IsSetupAndCommunicating, the two
\* commands that read the driver once for the value and again for the message
C22_SingleReadCommandsAgree ==
    [][ \A code \in {CMD_GET_STALL_GUARD_RESULT, CMD_IS_STANDING_STILL} :
          (rev = "final" /\ Handles(code)) =>
            /\ resp'.success
            /\ SameDriverState(code, resp')
            /\ motorMoving' = motorMoving
            /\ drv' = drv ]_vars

-----------------------------------------------------------------------------
(* Final revision: SetMicrostepsPerStep *)

\* n = 2^k for some k >= 0, among the integers of 32 bits
IsTwoToTheK(n) == \E k \in 0..30 : n = 2^k

\* the step handles SetMicrostepsPerStep with an integer payload
HandlesMicrosteps ==
    rev = "final" /\ Handles(CMD_SET_MICROSTEPS_PER_STEP) /\ cmd'.value.t = "int"

\* the payload was accepted and handed to the driver / rejected without a call
MicrostepsAccepted ==
    resp'.success /\ calls' = <<Call("setMicrostepsPerStep", cmd'.value.n)>>
MicrostepsRejected == ~resp'.success /\ calls' = <<>>

\* C23, as stated: SetMicrostepsPerStep accepts an integer n and calls
\* setMicrostepsPerStep(n) if and only if n = 2^k for some k >= 0; every
\* other integer is rejected with success=false and no driver call.
C23_AnyPowerOfTwo ==
    [][ HandlesMicrosteps =>
          IF IsTwoToTheK(cmd'.value.n) THEN MicrostepsAccepted
          ELSE MicrostepsRejected ]_vars

\* C23: SetMicrostepsPerStep accepts an integer n and calls
\* setMicrostepsPerStep(n) if and only if n is a power of two that fits the
\* 16-bit int of the handler (n = 2^k, 0 <= k <= 14); every other integer,
\* including 0, negative values and the powers of two from 32768 up, is
\* rejected with success=false and no driver call.
C23_PowerOfTwoInInt ==
    [][ HandlesMicrosteps =>
          IF IsTwoToTheK(cmd'.value.n) /\ cmd'.value.n <= INT_MAX THEN MicrostepsAccepted
          ELSE MicrostepsRejected ]_vars

\* the largest power of two that is accepted has been handed to the driver
C23_Witness ==
    /\ rev = "final"
    /\ cmd.code = CMD_SET_MICROSTEPS_PER_STEP
    /\ cmd.value = IntV(16384)
    /\ resp.success
    /\ calls = <<Call("setMicrostepsPerStep", 16384)>>

-----------------------------------------------------------------------------
(* Final revision: termination of sensorlessHoming *)

\* the routine has returned to loop() with its Response, and loop() reads the
\* serial line again
HomingReturned ==
    /\ pc = "idle"
    /\ resp.message \in {"Homing successful", "Homing timeout"}
    /\ out = <<sendResponse(resp.message, resp.success, resp.value)>>
    /\ ENABLED ReceiveLine

\* C24: every homing invocation terminates: as time advances the routine
\* returns to loop() with a Response, whether or not a stall is ever seen;
\* the seeking phase never lasts longer than the timeout window, after which
\* only the backoff delay can follow, and loop() then services commands again.
C24_HomingTerminates ==
    /\ [](pc = "seeking" => ~U32Greater(Elapsed(now, startTime), TIMEOUT_MS))
    /\ (pc # "idle") ~> HomingReturned

\* a homing run in which no stall was ever seen has returned
C24_Witness ==
    /\ rev = "final"
    /\ pc = "idle"
    /\ cmd.code = CMD_SENSORLESS_HOMING
    /\ cmd.value = IntV(0)
    /\ resp = [success |-> FALSE, value |-> 0, message |-> "Homing timeout"]
    /\ ~motorMoving

-----------------------------------------------------------------------------
(* Final revision: the moving flag against the driver *)

\* the moving flag agrees with the driver: not moving implies that the
\* velocity last commanded to the driver is 0 (equivalently, a non-zero
\* commanded velocity implies moving)
FlagAgreesWithDriver == ~motorMoving => drv.velocity = 0

MotionCodes == {CMD_ENABLE, CMD_MOVE_AT_VELOCITY, CMD_SENSORLESS_HOMING,
                CMD_RESET_TO_SAFE_CURRENT}

\* C25: in the final revision the moving flag agrees with the driver at every
\* command boundary: it holds after setup(), and every step of an Enable,
\* MoveAtVelocity, SensorlessHoming or ResetToSafeCurrent command that starts
\* with flag and driver in agreement ends with them in agreement, so that
\* moving == false implies a last commanded velocity of 0 after any sequence
\* of these commands.
C25_MovingFlagAgreesWithDriver ==
    [][ (rev = "final" /\ cmd'.kind = "cmd" /\ cmd'.code \in MotionCodes
         /\ FlagAgreesWithDriver) => FlagAgreesWithDriver' ]_vars

-----------------------------------------------------------------------------
(* Elapsed time across the wrap of millis() *)

\* the milliseconds that passed from clock reading start to clock reading t,
\* counted along the counter for a stretch shorter than 65536 ms: the low
\* half ran from start.lo to t.lo, through 65536 if the high half changed
\* (which it also does when the whole counter wraps from 2^32 - 1 to 0)
MsSince(start, t) ==
    IF t.hi = start.hi THEN t.lo - start.lo
    ELSE t.lo + (TwoPow16 - start.lo)

\* the counter wrapped from 2^32 - 1 to 0 between start and t
WrappedBetween(start, t) == start.hi = TwoPow16 - 1 /\ t.hi = 0

\* one pass of the polling loop of sensorlessHoming
LoopPass == rev = "final" /\ pc = "seeking" /\ (now' # now \/ pc' # "seeking")

\* the iteration reversed the motor
Reversed == \E i \in 1..Len(out') : out'[i] = [raw |-> "Reversing motor"]

\* C26: the elapsed-time tests give the true elapsed duration also when
\* millis() wraps between the recorded time and the current time: a pass of
\* the homing loop leaves with the timeout exactly when 5000 ms or more have
\* passed since the start, and an iteration of the self-test reverses exactly
\* when more than 3000 ms have passed since the reference timestamp.
C26_ElapsedAcrossWrap ==
    [][ /\ LoopPass =>
             ((pc' = "idle") <=> (MsSince(startTime, now) >= TIMEOUT_MS))
        /\ SelfTestIteration =>
             (Reversed <=> (MsSince(TimestampFound, now) > REVERSAL_INTERVAL_MS)) ]_vars

\* a homing run started before the wrap is about to leave with the timeout
\* after it
C26_Witness ==
    /\ rev = "final"
    /\ pc = "seeking"
    /\ WrappedBetween(startTime, now)
    /\ ~LoopCondition(now, startTime)
    /\ MsSince(startTime, now) = TIMEOUT_MS

\* a reversal took place after the wrap, measured from a timestamp taken
\* before it: the timestamp it recorded is too early for a reversal measured
\* from a timestamp after the wrap
C26_ReversalAfterWrap ==
    /\ rev = "early"
    /\ motorMoving
    /\ velocity = 0 - DEFAULT_VELOCITY
    /\ latestLoopTime.hi = 0
    /\ latestLoopTime.lo <= REVERSAL_INTERVAL_MS

====
